---------------------------- MODULE Spec2Model ----------------------------
(***************************************************************************)
(* Library lifecycle and versioned retrieval of open-context7-api.         *)
(*                                                                         *)
(* One library_id is modelled (every operation is keyed by it): its header *)
(* row in the "libraries" catalog collection, its partition (the Qdrant    *)
(* collection named library_id), the GitLab origin it may be backed by,    *)
(* the background tasks FastAPI runs for it, and the last HTTP response.   *)
(* A background task is a coroutine: it is cut at the awaits that touch    *)
(* shared state, local computation is folded into the following step.      *)
(* Every index call a task makes may fail.  A request handler runs its     *)
(* precondition checks in one step; a handler whose catalog read fails     *)
(* answers an internal error and changes nothing, which is not modelled.   *)
(* Spec is the lifecycle (requests and background tasks); QuerySpec runs   *)
(* queries against the libraries the lifecycle leaves behind.  catalog is  *)
(* the other libraries' header rows, which ReadSpec's searches list.       *)
(***************************************************************************)
EXTENDS Integers, Sequences, FiniteSets, TLC

\* ------------------------------------------------------------------ bounds
\* Largest token count of one snippet.
MaxTok == 2
\* Largest number of snippets one Processor.process call returns.
MaxSnips == 2
\* Background tasks accepted in one run; each gets a slot of its own.
MaxTasks == 2
\* Distinct commit ids the origin's branch head takes.
MaxCommit == 2
\* Largest number of points in a partition a query is run against.
MaxPoints == 3
\* Largest token budget of a query.
MaxBudget == 4
\* add_tag requests are made while the partition holds fewer points than this.
MaxTagPoints == 1
\* Longest org or project name an id is derived for.
MaxName == 2
\* Libraries the catalog may hold, the modelled one included.
MaxLibraries == 3
\* Largest limit and offset of a search request.
MaxLimit == 2
MaxOffset == 3
\* Most files handed to the content processor in one call.
MaxFiles == 2

\* ---------------------------------------------------------------- constants
\* Tag labels are Python strings; they are modelled as their code points so
\* that list.sort(reverse=True) compares them as Python does.
DEFAULT_LIBRARY_TAG == <<108, 97, 116, 101, 115, 116>>      \* "latest"
Tag10 == <<49, 46, 48>>                                      \* "1.0"
Tag20 == <<50, 46, 48>>                                      \* "2.0"
RepoTags == {Tag10, Tag20}
Tag15 == <<49, 46, 53>>                                      \* "1.5"
Tag100 == <<49, 48, 46, 48>>                                 \* "10.0"

PROCESSING == "processing"
FINALIZED == "finalized"
FAILED == "failed"

\* Storage.query's default limit.
QUERY_LIMIT == 20

\* get_latest_commit_id returns None when the id cannot be fetched.
NoCommit == 0
Commits == 0..MaxCommit

VARIABLES header, partition, origin, tasks, resp, catalog

vars == <<header, partition, origin, tasks, resp, catalog>>

\* ------------------------------------------------------------------ helpers
RECURSIVE SumTokens(_)
SumTokens(s) == IF s = <<>> THEN 0 ELSE Head(s).tokens + SumTokens(Tail(s))

\* Python's str ordering: code point by code point, a proper prefix is smaller.
RECURSIVE StrLess(_, _)
StrLess(a, b) ==
    IF b = <<>> THEN FALSE
    ELSE IF a = <<>> THEN TRUE
    ELSE IF Head(a) # Head(b) THEN Head(a) < Head(b)
    ELSE StrLess(Tail(a), Tail(b))

\* Insert x in a descending list, after the elements that are not smaller.
RECURSIVE InsertDesc(_, _)
InsertDesc(x, s) ==
    IF s = <<>> THEN <<x>>
    ELSE IF StrLess(Head(s), x) THEN <<x>> \o s
    ELSE <<Head(s)>> \o InsertDesc(x, Tail(s))

\* A faulty variant of SortDesc: the list is left as appended.
SortDesc_unsorted(s) == s

\* list.sort(reverse=True): a stable descending sort.
RECURSIVE SortDesc(_)
SortDesc(s) == IF s = <<>> THEN <<>> ELSE InsertDesc(Head(s), SortDesc(Tail(s)))

Range(s) == {s[i] : i \in 1..Len(s)}

\* The snippet lists Processor.process may return: token counts are the
\* embedding call's prompt_tokens.
RECURSIVE TokenSeqs(_)
TokenSeqs(n) ==
    IF n = 0 THEN {<<>>}
    ELSE TokenSeqs(n - 1) \cup
         {Append(s, k) : s \in {q \in TokenSeqs(n - 1) : Len(q) = n - 1}, k \in 1..MaxTok}

ProcessorOutputs == TokenSeqs(MaxSnips)

\* ------------------------------------------------------------------- state
\* The header row (the point's payload in the catalog collection).
NoHeader ==
    [exists |-> FALSE, state |-> FAILED, tags |-> <<>>, total_tokens |-> 0,
     error_message |-> "", repo_url |-> FALSE, last_commit_id |-> NoCommit]

NoPartition == [exists |-> FALSE, points |-> <<>>]

\* A task slot: the coroutine's position and its locals. An unused slot is
\* "idle"; a task that ended is "done", with cause "" if it returned and
\* "raised" if an exception left it. alone records that no other task was
\* in flight at any time since this one was accepted, fetched the commit the
\* origin's branch was at when a rebuild collected its files.
IdleTask ==
    [kind |-> "idle", pc |-> "idle", tag |-> DEFAULT_LIBRARY_TAG,
     total_tokens |-> 0, cause |-> "", commit_id |-> NoCommit, tags |-> <<>>,
     alone |-> TRUE, fetched |-> NoCommit]

DoneTask == [IdleTask EXCEPT !.kind = "done", !.pc = "done"]

RaisedTask == [DoneTask EXCEPT !.cause = "raised"]

\* The last HTTP response: the operation, how it ended ("accepted",
\* "validation", "not_found", "already_exists", "ok"), and for a query the
\* tag and token budget it asked for, the tag its validation error names,
\* the ranked list its search answered with, the documents it returned and
\* the external calls (embedding, search) it made.
NoResp ==
    [op |-> "none", result |-> "none", tag |-> <<>>, tokens |-> 0,
     detail |-> <<>>, results |-> <<>>, docs |-> <<>>, calls |-> {}]

Response(op, result) == [NoResp EXCEPT !.op = op, !.result = result]

Init ==
    /\ header = NoHeader
    /\ partition = NoPartition
    /\ origin \in 1..MaxCommit
    /\ tasks = [t \in 1..MaxTasks |-> IdleTask]
    /\ resp = NoResp
    /\ catalog = {}

\* ------------------------------------------------------- catalog reads
\* LibraryService.exists: the partition's existence, not the header's.
exists == partition.exists

\* LibraryService.is_processing: ResourceNotFoundError reads as False.
is_processing == header.exists /\ header.state = PROCESSING

IdleSlots == {t \in 1..MaxTasks : tasks[t].kind = "idle"}

InFlight == {t \in 1..MaxTasks : tasks[t].kind \notin {"idle", "done"}}

\* BackgroundTasks.add_task: the task starts after the response is sent.
add_task(kind, pc, tag) ==
    /\ IdleSlots # {}
    /\ LET t == CHOOSE i \in IdleSlots : \A j \in IdleSlots : i <= j
       IN tasks' = [u \in 1..MaxTasks |->
                      IF u = t
                      THEN [IdleTask EXCEPT !.kind = kind, !.pc = pc, !.tag = tag,
                                            !.alone = (InFlight = {})]
                      ELSE IF u \in InFlight THEN [tasks[u] EXCEPT !.alone = FALSE]
                      ELSE tasks[u]]

Reject(op, result) ==
    /\ resp' = Response(op, result)
    /\ UNCHANGED <<header, partition, origin, tasks, catalog>>

\* A faulty variant of Accept: the handler marks the header processing
\* before it answers.
Accept_marking(op, pc, tag) ==
    /\ add_task(op, pc, tag)
    /\ resp' = Response(op, "accepted")
    /\ header' = [header EXCEPT !.exists = TRUE, !.state = PROCESSING]
    /\ UNCHANGED <<partition, origin, catalog>>

Accept(op, pc, tag) ==
    /\ add_task(op, pc, tag)
    /\ resp' = Response(op, "accepted")
    /\ UNCHANGED <<header, partition, origin, catalog>>

\* ---------------------------------------------------- request handlers
\* POST /{org}/{project}/content
api_create_from_content ==
    IF exists
    THEN Reject("create", "already_exists")
    ELSE Accept("create", "initialize", DEFAULT_LIBRARY_TAG)

\* POST / : access is what validate_access answers.
api_create(access) ==
    IF ~access THEN Reject("create_from_git", "validation")
    ELSE IF exists THEN Reject("create_from_git", "already_exists")
    ELSE Accept("create_from_git", "initialize", DEFAULT_LIBRARY_TAG)

\* A faulty variant of precheck_rebuild: the commit ids are not compared.
precheck_rebuild_no_compare(access) ==
    IF ~header.exists THEN "not_found"
    ELSE IF ~header.repo_url THEN "validation"
    ELSE IF is_processing THEN "validation"
    ELSE IF ~access THEN "validation"
    ELSE ""

\* A faulty variant of precheck_rebuild: the origin's kind is not checked.
precheck_rebuild_any_origin(access) ==
    IF ~header.exists THEN "not_found"
    ELSE IF is_processing THEN "validation"
    ELSE IF ~access THEN "validation"
    ELSE IF origin = header.last_commit_id THEN "validation"
    ELSE ""

\* LibraryService.precheck_rebuild: the error it raises, "" when it passes.
precheck_rebuild(access) ==
    IF ~header.exists THEN "not_found"
    ELSE IF ~header.repo_url THEN "validation"
    ELSE IF is_processing THEN "validation"
    ELSE IF ~access THEN "validation"
    ELSE IF origin = header.last_commit_id THEN "validation"
    ELSE ""

\* POST /{org}/{project}/rebuild
api_rebuild(access) ==
    IF precheck_rebuild(access) # ""
    THEN Reject("rebuild", precheck_rebuild(access))
    ELSE Accept("rebuild", "set_processing", DEFAULT_LIBRARY_TAG)

\* A faulty variant of precheck_add_tag: the state is not consulted.
precheck_add_tag_any_state(tag, access, available_tags) ==
    IF ~header.exists THEN "not_found"
    ELSE IF tag \in Range(header.tags) THEN "validation"
    ELSE IF ~header.repo_url THEN "validation"
    ELSE IF ~access THEN "validation"
    ELSE IF tag \notin available_tags THEN "validation"
    ELSE ""

\* LibraryService.precheck_add_tag; available_tags is the origin's listing.
precheck_add_tag(tag, access, available_tags) ==
    IF ~header.exists THEN "not_found"
    ELSE IF tag \in Range(header.tags) THEN "validation"
    ELSE IF is_processing THEN "validation"
    ELSE IF ~header.repo_url THEN "validation"
    ELSE IF ~access THEN "validation"
    ELSE IF tag \notin available_tags THEN "validation"
    ELSE ""

\* POST /{org}/{project}/tags/{tag}
api_add_tag(tag, access, available_tags) ==
    IF precheck_add_tag(tag, access, available_tags) # ""
    THEN Reject("add_tag", precheck_add_tag(tag, access, available_tags))
    ELSE Accept("add_tag", "get_by_id", tag)

\* ------------------------------------------------------ background tasks
\* The task returns.
Return(t) == tasks' = [tasks EXCEPT ![t] = DoneTask]

\* An exception leaves the task (the BackgroundTasks runner logs it).
Propagate(t) == tasks' = [tasks EXCEPT ![t] = RaisedTask]

Goto(t, pc) == tasks' = [tasks EXCEPT ![t].pc = pc]

\* A faulty variant of Raise: add_tag catches the exception, logs it and
\* returns.
Raise_swallowed(t, cause) ==
    IF tasks[t].kind \in {"create", "create_from_git"}
    THEN tasks' = [tasks EXCEPT ![t].pc = "cleanup_delete", ![t].cause = cause]
    ELSE IF tasks[t].kind = "rebuild"
    THEN tasks' = [tasks EXCEPT ![t].pc = "set_failed", ![t].cause = cause]
    ELSE Return(t)

\* An exception raised in the task body: create and create_from_git catch
\* it and clean up, rebuild catches it and marks the header, add_tag has no
\* handler and the exception leaves the task.
Raise(t, cause) ==
    IF tasks[t].kind \in {"create", "create_from_git"}
    THEN tasks' = [tasks EXCEPT ![t].pc = "cleanup_delete", ![t].cause = cause]
    ELSE IF tasks[t].kind = "rebuild"
    THEN tasks' = [tasks EXCEPT ![t].pc = "set_failed", ![t].cause = cause]
    ELSE Propagate(t)

\* set_payload on the header row: a missing point is not created.
set_payload(fields) ==
    IF header.exists
    THEN header' = [f \in DOMAIN header |->
                       IF f \in DOMAIN fields THEN fields[f] ELSE header[f]]
    ELSE UNCHANGED header

\* The library embedding fails in create / create_from_git.
initialize_embedding_raises(t) ==
    /\ tasks[t].pc = "initialize"
    /\ Raise(t, "embedding")
    /\ UNCHANGED <<header, partition, origin, resp, catalog>>

\* A faulty variant of initialize: the partition is created first, the
\* header row is not yet written when create_collection runs.
initialize_partition_first(t) ==
    /\ tasks[t].pc = "initialize"
    /\ \/ Raise(t, "index")
       \/ Goto(t, "create_collection")
    /\ UNCHANGED <<header, partition, origin, resp, catalog>>

\* Storage.initialize up to the catalog upsert (after the library embedding,
\* and build_payload for a repository): the upsert replaces the payload.
initialize(t) ==
    /\ tasks[t].pc = "initialize"
    /\ \/ /\ Raise(t, "index")
          /\ UNCHANGED header
       \/ /\ header' = [exists |-> TRUE, state |-> PROCESSING, tags |-> <<>>,
                        total_tokens |-> 0, error_message |-> "",
                        repo_url |-> (tasks[t].kind = "create_from_git"),
                        last_commit_id |->
                            IF tasks[t].kind = "create_from_git" THEN origin ELSE NoCommit]
          /\ Goto(t, "create_collection")
    /\ UNCHANGED <<partition, origin, resp, catalog>>

\* Storage.initialize, create_collection: an existing collection is a conflict.
create_collection(t) ==
    /\ tasks[t].pc = "create_collection"
    /\ \/ /\ Raise(t, "index")
          /\ UNCHANGED partition
       \/ /\ ~partition.exists
          /\ partition' = [exists |-> TRUE, points |-> <<>>]
          /\ Goto(t, "process")
    /\ UNCHANGED <<header, origin, resp, catalog>>

\* A faulty variant of Points: the snippets' tag is not set, so each point
\* gets the default tag.
Points_untagged(tokens, tag) ==
    [i \in 1..Len(tokens) |-> [tag |-> DEFAULT_LIBRARY_TAG, tokens |-> tokens[i]]]

\* save_snippets' points: one per snippet, labelled with the task's tag.
Points(tokens, tag) == [i \in 1..Len(tokens) |-> [tag |-> tag, tokens |-> tokens[i]]]

\* Where a task goes once its snippets are stored.
AfterSave(kind) ==
    IF kind = "create" THEN "complete_library"
    ELSE IF kind = "add_tag" THEN "add_tag_to_index"
    ELSE "complete"

\* collect_files (repository tasks) or Processor.process raises: cause is
\* "origin" (the clone fails) or "processor" (a completion or embedding
\* call fails).
process_raises(t, cause) ==
    /\ tasks[t].pc = "process"
    /\ cause = "origin" => tasks[t].kind # "create"
    /\ Raise(t, cause)
    /\ UNCHANGED <<header, partition, origin, resp, catalog>>

\* collect_files of a rebuild: the commit of the branch head the files are
\* taken from.
collected_commit(t) ==
    IF tasks[t].kind = "rebuild" THEN origin ELSE NoCommit

\* Processor.process returns the snippets whose token counts are out, and
\* Storage.save_snippets upserts them (no index call for an empty list).
save_snippets(t, out) ==
    /\ tasks[t].pc = "process"
    /\ \/ /\ out = <<>>
          /\ tasks' = [tasks EXCEPT ![t].pc = AfterSave(tasks[t].kind),
                                    ![t].total_tokens = 0,
                                    ![t].fetched = collected_commit(t)]
          /\ UNCHANGED partition
       \/ /\ out # <<>>
          /\ Raise(t, "index")
          /\ UNCHANGED partition
       \/ /\ out # <<>> /\ partition.exists
          /\ partition' = [partition EXCEPT !.points = @ \o Points(out, tasks[t].tag)]
          /\ tasks' = [tasks EXCEPT ![t].pc = AfterSave(tasks[t].kind),
                                    ![t].total_tokens = SumTokens(Points(out, tasks[t].tag)),
                                    ![t].fetched = collected_commit(t)]
    /\ UNCHANGED <<header, origin, resp, catalog>>

\* A faulty variant of complete_library: the state is finalized but the
\* token total is not written.
complete_library_without_total(t) ==
    /\ tasks[t].pc = "complete_library"
    /\ \/ /\ Raise(t, "index")
          /\ UNCHANGED header
       \/ /\ set_payload([state |-> FINALIZED])
          /\ Return(t)
    /\ UNCHANGED <<partition, origin, resp, catalog>>

\* Storage.complete_library (content create).
complete_library(t) ==
    /\ tasks[t].pc = "complete_library"
    /\ \/ /\ Raise(t, "index")
          /\ UNCHANGED header
       \/ /\ set_payload([state |-> FINALIZED, total_tokens |-> tasks[t].total_tokens])
          /\ Return(t)
    /\ UNCHANGED <<partition, origin, resp, catalog>>

\* Storage.complete, first await: the provider's latest commit id.
complete_get_commit(t) ==
    /\ tasks[t].pc = "complete"
    /\ tasks' = [tasks EXCEPT ![t].pc = "complete_set_payload", ![t].commit_id = origin]
    /\ UNCHANGED <<header, partition, origin, resp, catalog>>

\* Storage.complete, second await: the commit id is written only if not None.
complete_set_payload(t) ==
    /\ tasks[t].pc = "complete_set_payload"
    /\ \/ /\ Raise(t, "index")
          /\ UNCHANGED header
       \/ /\ IF tasks[t].commit_id # NoCommit
             THEN set_payload([state |-> FINALIZED,
                               total_tokens |-> tasks[t].total_tokens,
                               last_commit_id |-> tasks[t].commit_id])
             ELSE set_payload([state |-> FINALIZED,
                               total_tokens |-> tasks[t].total_tokens])
          /\ Return(t)
    /\ UNCHANGED <<partition, origin, resp, catalog>>

\* Storage.cleanup_failed_library, delete_collection: its failure is logged
\* and swallowed.
cleanup_delete_collection(t) ==
    /\ tasks[t].pc = "cleanup_delete"
    /\ \/ UNCHANGED partition
       \/ partition' = NoPartition
    /\ Goto(t, "cleanup_set_failed")
    /\ UNCHANGED <<header, origin, resp, catalog>>

\* Storage.cleanup_failed_library, set_payload (its failure is logged and
\* swallowed), then the handler re-raises: error_message is str(e) plus the
\* traceback, never empty.
cleanup_set_failed(t) ==
    /\ tasks[t].pc = "cleanup_set_failed"
    /\ \/ UNCHANGED header
       \/ set_payload([state |-> FAILED, error_message |-> "error"])
    /\ Propagate(t)
    /\ UNCHANGED <<partition, origin, resp, catalog>>

\* A faulty variant of rebuild_set_processing: the state is not written
\* before the snippets are cleared.
rebuild_without_marking(t) ==
    /\ tasks[t].pc = "set_processing"
    /\ \/ Raise(t, "index")
       \/ Goto(t, "remove_tag")
    /\ UNCHANGED <<header, partition, origin, resp, catalog>>

\* LibraryService.rebuild, first await: state=processing.
rebuild_set_processing(t) ==
    /\ tasks[t].pc = "set_processing"
    /\ \/ /\ Raise(t, "index")
          /\ UNCHANGED header
       \/ /\ set_payload([state |-> PROCESSING])
          /\ Goto(t, "remove_tag")
    /\ UNCHANGED <<partition, origin, resp, catalog>>

\* A faulty variant of remove_tag: the delete has no tag filter.
remove_tag_unfiltered(t) ==
    /\ tasks[t].pc = "remove_tag"
    /\ \/ /\ Raise(t, "index")
          /\ UNCHANGED partition
       \/ /\ partition.exists
          /\ partition' = [partition EXCEPT !.points = <<>>]
          /\ Goto(t, "get_by_id")
    /\ UNCHANGED <<header, origin, resp, catalog>>

\* Storage.remove_tag: delete the points whose tag matches.
remove_tag(t) ==
    /\ tasks[t].pc = "remove_tag"
    /\ \/ /\ Raise(t, "index")
          /\ UNCHANGED partition
       \/ /\ partition.exists
          /\ partition' = [partition EXCEPT !.points =
                               SelectSeq(@, LAMBDA p : p.tag # DEFAULT_LIBRARY_TAG)]
          /\ Goto(t, "get_by_id")
    /\ UNCHANGED <<header, origin, resp, catalog>>

\* Storage.get_by_id and GitLabAdapter.from_library in rebuild and add_tag:
\* a failed read, a missing header or missing repository fields raise.
\* A faulty variant of get_by_id: add_tag lists the tag as soon as it has
\* read the header, before the tag's files are processed and stored.
get_by_id_listing_first(t) ==
    /\ tasks[t].pc = "get_by_id"
    /\ \/ /\ Raise(t, "index")
          /\ UNCHANGED header
       \/ /\ header.exists /\ header.repo_url
          /\ Goto(t, "process")
          /\ IF tasks[t].kind = "add_tag" /\ tasks[t].tag \notin Range(header.tags)
             THEN set_payload([tags |-> SortDesc(Append(header.tags, tasks[t].tag))])
             ELSE UNCHANGED header
    /\ UNCHANGED <<partition, origin, resp, catalog>>

get_by_id(t) ==
    /\ tasks[t].pc = "get_by_id"
    /\ \/ Raise(t, "index")
       \/ /\ header.exists /\ header.repo_url
          /\ Goto(t, "process")
    /\ UNCHANGED <<header, partition, origin, resp, catalog>>

\* LibraryService.rebuild's handler: state=failed with str(e), then re-raise;
\* a failure of this write leaves the handler too.
\* A faulty variant of rebuild_set_failed: the handler cleans up as a
\* create's does, deleting the partition before it marks the header.
rebuild_set_failed_cleaning(t) ==
    /\ tasks[t].pc = "set_failed"
    /\ \/ UNCHANGED header
       \/ set_payload([state |-> FAILED, error_message |-> "error"])
    /\ Propagate(t)
    /\ partition' = NoPartition
    /\ UNCHANGED <<origin, resp, catalog>>

rebuild_set_failed(t) ==
    /\ tasks[t].pc = "set_failed"
    /\ \/ UNCHANGED header
       \/ set_payload([state |-> FAILED, error_message |-> "error"])
    /\ Propagate(t)
    /\ UNCHANGED <<partition, origin, resp, catalog>>

\* A faulty variant of add_tag_to_index: the tag is appended without looking
\* for it in the list read.
add_tag_to_index_unchecked(t) ==
    /\ tasks[t].pc = "add_tag_to_index"
    /\ \/ Propagate(t)
       \/ /\ ~header.exists
          /\ Return(t)
       \/ /\ header.exists
          /\ tasks' = [tasks EXCEPT ![t].pc = "set_tags",
                                    ![t].tags = SortDesc(Append(header.tags, tasks[t].tag))]
    /\ UNCHANGED <<header, partition, origin, resp, catalog>>

\* Storage.add_tag_to_index, retrieve: the tag list as read, with the tag
\* appended and the list sorted newest first.
add_tag_to_index(t) ==
    /\ tasks[t].pc = "add_tag_to_index"
    /\ \/ Propagate(t)
       \/ /\ ~header.exists \/ tasks[t].tag \in Range(header.tags)
          /\ Return(t)
       \/ /\ header.exists /\ tasks[t].tag \notin Range(header.tags)
          /\ tasks' = [tasks EXCEPT ![t].pc = "set_tags",
                                    ![t].tags = SortDesc(Append(header.tags, tasks[t].tag))]
    /\ UNCHANGED <<header, partition, origin, resp, catalog>>

\* Storage.add_tag_to_index, set_payload of the sorted list.
add_tag_set_tags(t) ==
    /\ tasks[t].pc = "set_tags"
    /\ \/ /\ UNCHANGED header
          /\ Propagate(t)
       \/ /\ set_payload([tags |-> tasks[t].tags])
          /\ Return(t)
    /\ UNCHANGED <<partition, origin, resp, catalog>>

\* The origin's branch head moves (or its commit id cannot be fetched).
origin_moves(c) ==
    /\ c # origin
    /\ origin' = c
    /\ UNCHANGED <<header, partition, tasks, resp, catalog>>

\* ------------------------------------------------------------------ query
\* LibraryService._apply_token_limit's loop: documents are taken in order
\* while the running total stays within the limit, the first one that does
\* not fit ends the loop.
RECURSIVE TokenLimitLoop(_, _, _, _)
TokenLimitLoop(documents, token_limit, filtered_docs, total_tokens) ==
    IF documents = <<>>
    THEN [documents |-> filtered_docs, total_tokens |-> total_tokens]
    ELSE IF total_tokens + Head(documents).tokens <= token_limit
    THEN TokenLimitLoop(Tail(documents), token_limit,
                        Append(filtered_docs, Head(documents)),
                        total_tokens + Head(documents).tokens)
    ELSE [documents |-> filtered_docs, total_tokens |-> total_tokens]

\* A faulty variant of the loop: a document that does not fit is skipped and
\* the loop goes on.
RECURSIVE TokenLimitSkipLoop(_, _, _, _)
TokenLimitSkipLoop(documents, token_limit, filtered_docs, total_tokens) ==
    IF documents = <<>>
    THEN [documents |-> filtered_docs, total_tokens |-> total_tokens]
    ELSE IF total_tokens + Head(documents).tokens <= token_limit
    THEN TokenLimitSkipLoop(Tail(documents), token_limit,
                            Append(filtered_docs, Head(documents)),
                            total_tokens + Head(documents).tokens)
    ELSE TokenLimitSkipLoop(Tail(documents), token_limit, filtered_docs, total_tokens)

apply_token_limit_skipping(documents, token_limit) ==
    TokenLimitSkipLoop(documents, token_limit, <<>>, 0)

\* A faulty variant of the loop: the total is compared before the document
\* is added, so the document that crosses the limit is kept.
RECURSIVE TokenLimitLateLoop(_, _, _, _)
TokenLimitLateLoop(documents, token_limit, filtered_docs, total_tokens) ==
    IF documents = <<>>
    THEN [documents |-> filtered_docs, total_tokens |-> total_tokens]
    ELSE IF total_tokens < token_limit
    THEN TokenLimitLateLoop(Tail(documents), token_limit,
                            Append(filtered_docs, Head(documents)),
                            total_tokens + Head(documents).tokens)
    ELSE [documents |-> filtered_docs, total_tokens |-> total_tokens]

apply_token_limit_late(documents, token_limit) ==
    TokenLimitLateLoop(documents, token_limit, <<>>, 0)

apply_token_limit(documents, token_limit) ==
    TokenLimitLoop(documents, token_limit, <<>>, 0)

\* Storage.query: the points whose tag matches, in the order the vector
\* search ranks them (rank is a permutation of their positions), cut at limit.
storage_query(tag, rank, limit) ==
    LET matching == SelectSeq(partition.points, LAMBDA p : p.tag = tag)
        ranked == [i \in 1..Len(matching) |-> matching[rank[i]]]
    IN SubSeq(ranked, 1, IF Len(ranked) < limit THEN Len(ranked) ELSE limit)

Ranks(tag) ==
    Permutations(1..Len(SelectSeq(partition.points, LAMBDA p : p.tag = tag)))

\* A faulty variant of validate_tag: the tag list is not consulted.
validate_tag_unchecked(tag) ==
    IF tag = DEFAULT_LIBRARY_TAG THEN ""
    ELSE IF ~header.exists THEN "not_found"
    ELSE ""

\* LibraryService.query's tag validation: the error it raises, "" if none.
validate_tag(tag) ==
    IF tag = DEFAULT_LIBRARY_TAG THEN ""
    ELSE IF ~header.exists THEN "not_found"
    ELSE IF tag \notin Range(header.tags) THEN "validation"
    ELSE ""

\* A faulty variant of api_query: a failed embedding or search call leaves
\* LibraryService.query as an error.
api_query_propagating(tag, tokens, embedding_ok, index_ok, rank) ==
    LET asked == [Response("query", "ok") EXCEPT !.tag = tag, !.tokens = tokens]
    IN
    /\ resp' =
          IF validate_tag(tag) # ""
          THEN [asked EXCEPT
                   !.result = validate_tag(tag),
                   !.detail = IF validate_tag(tag) = "validation" THEN tag ELSE <<>>]
          ELSE IF ~embedding_ok
          THEN [asked EXCEPT !.result = "error", !.calls = {"embedding"}]
          ELSE IF ~index_ok \/ ~partition.exists
          THEN [asked EXCEPT !.result = "error", !.calls = {"embedding", "search"}]
          ELSE [asked EXCEPT
                   !.calls = {"embedding", "search"},
                   !.results = storage_query(tag, rank, QUERY_LIMIT),
                   !.docs = apply_token_limit(storage_query(tag, rank, QUERY_LIMIT),
                                              tokens).documents]
    /\ UNCHANGED <<header, partition, origin, tasks, catalog>>

\* GET /{org}/{project}[/{tag}]: embedding_ok is whether the topic embedding
\* call answers, index_ok whether the vector search does (it also raises
\* when the partition is missing); a failed embedding or search is caught
\* and answers [].
api_query(tag, tokens, embedding_ok, index_ok, rank) ==
    LET asked == [Response("query", "ok") EXCEPT !.tag = tag, !.tokens = tokens]
    IN
    /\ resp' =
          IF validate_tag(tag) # ""
          THEN [asked EXCEPT
                   !.result = validate_tag(tag),
                   !.detail = IF validate_tag(tag) = "validation" THEN tag ELSE <<>>]
          ELSE IF ~embedding_ok
          THEN [asked EXCEPT !.calls = {"embedding"}]
          ELSE IF ~index_ok \/ ~partition.exists
          THEN [asked EXCEPT !.calls = {"embedding", "search"}]
          ELSE [asked EXCEPT
                   !.calls = {"embedding", "search"},
                   !.results = storage_query(tag, rank, QUERY_LIMIT),
                   !.docs = apply_token_limit(storage_query(tag, rank, QUERY_LIMIT),
                                              tokens).documents]
    /\ UNCHANGED <<header, partition, origin, tasks, catalog>>

\* The libraries queries are run against: none, a failed create (header
\* without partition), or a finalized library with its tags newest first
\* and up to MaxPoints stored snippets.
RECURSIVE PointSeqs(_)
PointSeqs(n) ==
    IF n = 0 THEN {<<>>}
    ELSE PointSeqs(n - 1) \cup
         {Append(s, [tag |-> g, tokens |-> k]) :
             s \in {q \in PointSeqs(n - 1) : Len(q) = n - 1},
             g \in {DEFAULT_LIBRARY_TAG, Tag10}, k \in 1..MaxTok}

QueryTags == {DEFAULT_LIBRARY_TAG} \cup RepoTags

QueryInit ==
    /\ \/ header = NoHeader /\ partition = NoPartition
       \/ /\ header = [NoHeader EXCEPT !.exists = TRUE, !.error_message = "error"]
          /\ partition = NoPartition
       \/ /\ partition \in {[exists |-> TRUE, points |-> s] : s \in PointSeqs(MaxPoints)}
          /\ header \in {[exists |-> TRUE, state |-> FINALIZED, tags |-> g,
                          total_tokens |-> SumTokens(partition.points),
                          error_message |-> "", repo_url |-> TRUE,
                          last_commit_id |-> 1] :
                            g \in {<<>>, <<Tag10>>, <<Tag20>>, <<Tag20, Tag10>>}}
    /\ origin = 1
    /\ tasks = [t \in 1..MaxTasks |-> IdleTask]
    /\ resp = NoResp
    /\ catalog = {}

QueryNext ==
    \E tag \in QueryTags, tokens \in 1..MaxBudget, embedding_ok \in BOOLEAN,
       index_ok \in BOOLEAN :
        \E rank \in Ranks(tag) : api_query(tag, tokens, embedding_ok, index_ok, rank)

QuerySpec == QueryInit /\ [][QueryNext]_vars

\* ------------------------------------------------------------------- tags
\* The BackgroundTasks runner drops a task that ended.
task_discarded(t) ==
    /\ tasks[t].kind = "done"
    /\ tasks' = [tasks EXCEPT ![t] = IdleTask]
    /\ UNCHANGED <<header, partition, origin, resp, catalog>>

\* The labels add_tag is asked for, and what the origin's tag listing answers.
TagLabels == {Tag10, Tag15, Tag20, Tag100}

TagListings == {TagLabels, {Tag10}}

\* What Processor.process returns for a tag's files.
TagOutputs == {<<>>, <<1>>}

\* A finalized repository library without tags.
TagInit ==
    /\ header = [exists |-> TRUE, state |-> FINALIZED, tags |-> <<>>,
                 total_tokens |-> 0, error_message |-> "", repo_url |-> TRUE,
                 last_commit_id |-> 1]
    /\ partition = [exists |-> TRUE, points |-> <<>>]
    /\ origin = 1
    /\ tasks = [t \in 1..MaxTasks |-> IdleTask]
    /\ resp = NoResp
    /\ catalog = {}

\* add_tag requests and the steps of their tasks; requests stop once the
\* partition holds MaxTagPoints points.
TagNext ==
    \/ /\ Len(partition.points) < MaxTagPoints
       /\ \E tag \in TagLabels, access \in BOOLEAN, available_tags \in TagListings :
              api_add_tag(tag, access, available_tags)
    \/ \E t \in 1..MaxTasks :
          \/ get_by_id(t)
          \/ process_raises(t, "origin")
          \/ \E out \in TagOutputs : save_snippets(t, out)
          \/ add_tag_to_index(t)
          \/ add_tag_set_tags(t)
          \/ task_discarded(t)

TagSpec == TagInit /\ [][TagNext]_vars

\* -------------------------------------------------------------- mutations
\* A finalized repository library as a create followed by add_tag 1.0 leave
\* it: one snippet under the default tag, one under 1.0, and the total the
\* create wrote. The origin's head is at the stored commit or past it.
MutationInit ==
    /\ header = [exists |-> TRUE, state |-> FINALIZED, tags |-> <<Tag10>>,
                 total_tokens |-> 1, error_message |-> "", repo_url |-> TRUE,
                 last_commit_id |-> 1]
    /\ partition = [exists |-> TRUE,
                    points |-> <<[tag |-> DEFAULT_LIBRARY_TAG, tokens |-> 1],
                                 [tag |-> Tag10, tokens |-> 2]>>]
    /\ origin \in 1..MaxCommit
    /\ tasks = [t \in 1..MaxTasks |-> IdleTask]
    /\ resp = NoResp
    /\ catalog = {}

\* rebuild and add_tag requests on that library and the steps of their tasks.
MutationNext ==
    \/ \E access \in BOOLEAN : api_rebuild(access)
    \/ \E tag \in RepoTags, access \in BOOLEAN, available_tags \in {{}, RepoTags} :
          api_add_tag(tag, access, available_tags)
    \/ \E t \in 1..MaxTasks :
          \/ rebuild_set_processing(t)
          \/ remove_tag(t)
          \/ get_by_id(t)
          \/ \E cause \in {"origin", "processor"} : process_raises(t, cause)
          \/ \E out \in TagOutputs : save_snippets(t, out)
          \/ complete_get_commit(t)
          \/ complete_set_payload(t)
          \/ rebuild_set_failed(t)
          \/ add_tag_to_index(t)
          \/ add_tag_set_tags(t)
    \/ \E c \in Commits : origin_moves(c)

MutationSpec == MutationInit /\ [][MutationNext]_vars

\* ----------------------------------------------------------------- search
\* Point ids of the catalog collection. Qdrant orders unsigned integers
\* before UUIDs; a library's id is an MD5 hex digest, which Qdrant reads as
\* a UUID.
NumId(n) == [kind |-> "num", value |-> n]

Uuid(u) == [kind |-> "uuid", value |-> u]

PointIdLess(a, b) ==
    \/ a.kind = "num" /\ b.kind = "uuid"
    \/ a.kind = b.kind /\ a.value < b.value

\* The modelled library's id; the other libraries are 2..MaxLibraries.
library_id == 1

OtherLibraries == 2..MaxLibraries

\* The points of the catalog collection.
catalog_points ==
    {Uuid(u) : u \in catalog \cup (IF header.exists THEN {library_id} ELSE {})}

RECURSIVE ById(_)
ById(points) ==
    IF points = {} THEN <<>>
    ELSE LET first == CHOOSE p \in points : \A q \in points : ~PointIdLess(q, p)
         IN <<first>> \o ById(points \ {first})

Take(s, n) == SubSeq(s, 1, IF Len(s) < n THEN Len(s) ELSE n)

\* AsyncQdrantClient.scroll(limit, offset)[0]: offset is the point id the
\* page starts from; up to limit points with that id or a later one, by id.
qdrant_scroll(limit, offset) ==
    Take(ById({p \in catalog_points : ~PointIdLess(p, NumId(offset))}), limit)

\* AsyncQdrantClient.query_points(query, limit).points: the points by
\* descending score (rank lists every id in that order), cut at limit.
qdrant_query_points(rank, limit) ==
    Take(SelectSeq(rank, LAMBDA p : p \in catalog_points), limit)

\* A faulty variant of Storage.search: the vector search skips offset matches.
storage_search_paged(has_vector, rank, limit, offset) ==
    IF ~has_vector THEN qdrant_scroll(limit, offset)
    ELSE LET ranked == SelectSeq(rank, LAMBDA p : p \in catalog_points)
         IN Take(SubSeq(ranked, offset + 1, Len(ranked)), limit)

\* Storage.search: has_vector is "query_vector is not None".
storage_search(has_vector, rank, limit, offset) ==
    IF ~has_vector THEN qdrant_scroll(limit, offset)
    ELSE qdrant_query_points(rank, limit)

\* The query parameter: absent, or a text that may be empty.
NoQuery == [given |-> FALSE, text |-> <<>>]

Queries == {NoQuery, [given |-> TRUE, text |-> <<>>], [given |-> TRUE, text |-> <<113>>]}

\* Python's truth value of "str | None".
truthy(query) == query.given /\ query.text # <<>>

\* LibraryService.search: a failed embedding or index call is caught and
\* answers [].
LibraryService_search(query, limit, offset, embedding_ok, index_ok, rank) ==
    IF truthy(query) /\ ~embedding_ok THEN <<>>
    ELSE IF ~index_ok THEN <<>>
    ELSE storage_search(truthy(query), rank, limit, offset)

\* The orders a vector search may rank the libraries in.
SearchRanks ==
    {[i \in 1..MaxLibraries |-> Uuid(f[i])] :
        f \in {g \in [1..MaxLibraries -> 1..MaxLibraries] :
                  \A i, j \in 1..MaxLibraries : g[i] = g[j] => i = j}}

\* GET /search: the response lists the libraries found, in order.
api_search(query, limit, offset, embedding_ok, index_ok, rank) ==
    /\ resp' = [op |-> "search", result |-> "ok", query |-> query, limit |-> limit,
                offset |-> offset, embedding_ok |-> embedding_ok,
                index_ok |-> index_ok, rank |-> rank,
                results |-> LibraryService_search(query, limit, offset,
                                                  embedding_ok, index_ok, rank)]
    /\ UNCHANGED <<header, partition, origin, tasks, catalog>>

\* GET /{org}/{project}/meta: Storage.get_by_id.
api_get_library_meta ==
    /\ resp' = IF header.exists
               THEN [op |-> "get", result |-> "ok", library |-> header]
               ELSE [op |-> "get", result |-> "not_found", library |-> NoHeader]
    /\ UNCHANGED <<header, partition, origin, tasks, catalog>>

\* A faulty variant of api_get_tags: the listing is stored in the header.
api_get_tags_caching(access, available_tags) ==
    /\ header.exists /\ header.repo_url /\ access
    /\ resp' = [op |-> "get_tags", result |-> "ok", tags |-> SortDesc(available_tags)]
    /\ header' = [header EXCEPT !.tags = SortDesc(available_tags)]
    /\ UNCHANGED <<partition, origin, tasks, catalog>>

\* GET /{org}/{project}/tags: LibraryService.get_tags. access is what
\* validate_access answers, available_tags the origin's tags as listed.
api_get_tags(access, available_tags) ==
    /\ resp' = IF ~header.exists
               THEN [op |-> "get_tags", result |-> "not_found", tags |-> <<>>]
               ELSE IF ~header.repo_url \/ ~access
               THEN [op |-> "get_tags", result |-> "validation", tags |-> <<>>]
               ELSE [op |-> "get_tags", result |-> "ok",
                     tags |-> SortDesc(available_tags)]
    /\ UNCHANGED <<header, partition, origin, tasks, catalog>>

\* The origin's tag listing, in the order the GitLab API returns it.
TagLists == {<<>>, <<Tag10>>, <<Tag10, Tag20>>}

\* The libraries reads are run against: none, a failed create, a finalized
\* repository library and a finalized content library; next to them the
\* catalog holds any of the other libraries.
ReadInit ==
    /\ \/ header = NoHeader /\ partition = NoPartition
       \/ /\ header = [NoHeader EXCEPT !.exists = TRUE, !.error_message = "error"]
          /\ partition = NoPartition
       \/ /\ partition = [exists |-> TRUE,
                           points |-> <<[tag |-> DEFAULT_LIBRARY_TAG, tokens |-> 1],
                                        [tag |-> Tag10, tokens |-> 2]>>]
          /\ header \in {[exists |-> TRUE, state |-> FINALIZED, tags |-> <<Tag10>>,
                          total_tokens |-> 1, error_message |-> "",
                          repo_url |-> r, last_commit_id |-> IF r THEN 1 ELSE NoCommit] :
                            r \in BOOLEAN}
    /\ origin = 1
    /\ tasks = [t \in 1..MaxTasks |-> IdleTask]
    /\ resp = NoResp
    /\ catalog \in SUBSET OtherLibraries

ReadNext ==
    \/ \E query \in Queries, limit \in 1..MaxLimit, offset \in 0..MaxOffset,
          embedding_ok \in BOOLEAN, index_ok \in BOOLEAN, rank \in SearchRanks :
          api_search(query, limit, offset, embedding_ok, index_ok, rank)
    \/ api_get_library_meta
    \/ \E access \in BOOLEAN, available_tags \in TagLists :
          api_get_tags(access, available_tags)
    \/ \E tag \in QueryTags, tokens \in 1..MaxBudget, embedding_ok \in BOOLEAN,
          index_ok \in BOOLEAN :
          \E rank \in Ranks(tag) :
              api_query(tag, tokens, embedding_ok, index_ok, rank)

ReadSpec == ReadInit /\ [][ReadNext]_vars

\* --------------------------------------------------------------- identity
\* utils.common.md5_hash: the digest of the text's UTF-8 bytes. A digest
\* that depends on the bytes alone (no salt, no state) stands for MD5; the
\* names are ASCII, so the bytes are the code points.
RECURSIVE md5_digest(_, _)
md5_digest(bytes, h) ==
    IF bytes = <<>> THEN h
    ELSE md5_digest(Tail(bytes), (h * 31 + Head(bytes)) % 65536)

md5_hash(text) == md5_digest(text, 7)

\* f"/{org}/{project}"
canonical_name(org, project) == <<47>> \o org \o <<47>> \o project

\* deps.get_library_id: content create and every per-library endpoint.
get_library_id(org, project) == md5_hash(canonical_name(org, project))

\* GitLabAdapter.name
GitLabAdapter_name(org, project) == <<47>> \o org \o <<47>> \o project

\* A faulty variant of GitLabAdapter.id: the name is hashed without its
\* leading slash.
GitLabAdapter_id_of_path(org, project) == md5_hash(Tail(GitLabAdapter_name(org, project)))

\* GitLabAdapter.id: git create, and the providers built by from_library.
GitLabAdapter_id(org, project) == md5_hash(GitLabAdapter_name(org, project))

\* Org and project names: letters a..c, up to MaxName long.
RECURSIVE NamesOfLength(_)
NamesOfLength(n) ==
    IF n = 0 THEN {<<>>}
    ELSE {Append(w, c) : w \in NamesOfLength(n - 1), c \in 97..99}

Names == UNION {NamesOfLength(n) : n \in 1..MaxName}

IdInit == Init

\* A request served through the dependency derives the id.
derive_by_dependency(org, project) ==
    /\ resp' = [op |-> "get_library_id", org |-> org, project |-> project,
                library_id |-> get_library_id(org, project)]
    /\ UNCHANGED <<header, partition, origin, tasks, catalog>>

\* A provider built for the repository derives the id.
derive_by_adapter(org, project) ==
    /\ resp' = [op |-> "GitLabAdapter.id", org |-> org, project |-> project,
                library_id |-> GitLabAdapter_id(org, project)]
    /\ UNCHANGED <<header, partition, origin, tasks, catalog>>

IdNext ==
    \E org \in Names, project \in Names :
        \/ derive_by_dependency(org, project)
        \/ derive_by_adapter(org, project)

IdSpec == IdInit /\ [][IdNext]_vars

\* -------------------------------------------------------------- processor
\* What the completion call answers for a file and what the embedding call
\* answers for each snippet parsed from it: a file is blank or has text;
\* its completion call raises, answers text that is not JSON, or answers a
\* list of snippets; a snippet's embedding call raises or answers the
\* snippet's token count.
SnippetAnswers ==
    {[embedding_ok |-> FALSE, tokens |-> 0]} \cup
    {[embedding_ok |-> TRUE, tokens |-> k] : k \in 1..MaxTok}

RECURSIVE SnippetSeqs(_)
SnippetSeqs(n) ==
    IF n = 0 THEN {<<>>}
    ELSE SnippetSeqs(n - 1) \cup
         {Append(s, a) : s \in {q \in SnippetSeqs(n - 1) : Len(q) = n - 1},
                         a \in SnippetAnswers}

FileUnits ==
    {[content |-> "blank", completion |-> "none", snippets |-> <<>>]} \cup
    {[content |-> "text", completion |-> c, snippets |-> <<>>] :
        c \in {"raises", "unparseable"}} \cup
    {[content |-> "text", completion |-> "parsed", snippets |-> g] :
        g \in SnippetSeqs(MaxSnips)}

RECURSIVE FileSeqs(_)
FileSeqs(n) ==
    IF n = 0 THEN {<<>>}
    ELSE FileSeqs(n - 1) \cup
         {Append(s, u) : s \in {q \in FileSeqs(n - 1) : Len(q) = n - 1},
                         u \in FileUnits}

\* Processor._generate_snippets: the completion call is outside the try
\* block, a response that orjson cannot parse is logged and gives [].
generate_snippets(unit) ==
    IF unit.completion = "raises" THEN [raised |-> TRUE, snippets |-> <<>>]
    ELSE IF unit.completion = "unparseable" THEN [raised |-> FALSE, snippets |-> <<>>]
    ELSE [raised |-> FALSE, snippets |-> unit.snippets]

\* The inner loop of Processor.process: one embedding call per snippet, the
\* token count it answers is appended to the list.
RECURSIVE EmbedLoop(_, _)
EmbedLoop(generated, snippets) ==
    IF generated = <<>> THEN [raised |-> FALSE, snippets |-> snippets]
    ELSE IF ~Head(generated).embedding_ok THEN [raised |-> TRUE, snippets |-> <<>>]
    ELSE EmbedLoop(Tail(generated), Append(snippets, Head(generated).tokens))

\* The outer loop of Processor.process: blank files are skipped, an
\* exception leaves the function and nothing is returned.
RECURSIVE ProcessLoop(_, _)
ProcessLoop(files, snippets) ==
    IF files = <<>> THEN [raised |-> FALSE, snippets |-> snippets]
    ELSE IF Head(files).content = "blank" THEN ProcessLoop(Tail(files), snippets)
    ELSE IF generate_snippets(Head(files)).raised
    THEN [raised |-> TRUE, snippets |-> <<>>]
    ELSE IF EmbedLoop(generate_snippets(Head(files)).snippets, snippets).raised
    THEN [raised |-> TRUE, snippets |-> <<>>]
    ELSE ProcessLoop(Tail(files),
                     EmbedLoop(generate_snippets(Head(files)).snippets, snippets).snippets)

\* A faulty variant of Processor.process: a failed call ends the loop and
\* the snippets gathered so far are returned.
RECURSIVE PartialLoop(_, _)
PartialLoop(files, snippets) ==
    IF files = <<>> THEN [raised |-> FALSE, snippets |-> snippets]
    ELSE IF Head(files).content = "blank" THEN PartialLoop(Tail(files), snippets)
    ELSE IF generate_snippets(Head(files)).raised
    THEN [raised |-> FALSE, snippets |-> snippets]
    ELSE IF EmbedLoop(generate_snippets(Head(files)).snippets, snippets).raised
    THEN [raised |-> FALSE, snippets |-> snippets]
    ELSE PartialLoop(Tail(files),
                     EmbedLoop(generate_snippets(Head(files)).snippets, snippets).snippets)

process_returning_partial(files) == PartialLoop(files, <<>>)

\* Processor.process: raised, or the token counts of the snippets returned.
process(files) == ProcessLoop(files, <<>>)

\* LibraryService.create from Processor.process to Storage.save_snippets,
\* for the files the request carried (kept in resp).
create_process(t) ==
    /\ tasks[t].kind = "create"
    /\ \/ /\ process(resp.files).raised
          /\ process_raises(t, "processor")
       \/ /\ ~process(resp.files).raised
          /\ save_snippets(t, process(resp.files).snippets)

\* A create from content that has upserted its header and created its
\* partition and is about to process its files.
ProcessInit ==
    /\ header = [exists |-> TRUE, state |-> PROCESSING, tags |-> <<>>,
                 total_tokens |-> 0, error_message |-> "", repo_url |-> FALSE,
                 last_commit_id |-> NoCommit]
    /\ partition = [exists |-> TRUE, points |-> <<>>]
    /\ origin = 1
    /\ tasks = [t \in 1..MaxTasks |->
                  IF t = 1 THEN [IdleTask EXCEPT !.kind = "create", !.pc = "process"]
                  ELSE IdleTask]
    /\ resp \in {[op |-> "create", result |-> "accepted", files |-> f] :
                    f \in FileSeqs(MaxFiles)}
    /\ catalog = {}

ProcessNext ==
    \E t \in 1..MaxTasks :
        \/ create_process(t)
        \/ complete_library(t)
        \/ cleanup_delete_collection(t)
        \/ cleanup_set_failed(t)

ProcessSpec == ProcessInit /\ [][ProcessNext]_vars

\* ------------------------------------------------------------ specification
Requests ==
    \/ api_create_from_content
    \/ \E access \in BOOLEAN : api_create(access)
    \/ \E access \in BOOLEAN : api_rebuild(access)
    \/ \E tag \in RepoTags, access \in BOOLEAN, available_tags \in SUBSET RepoTags :
           api_add_tag(tag, access, available_tags)

TaskSteps ==
    \E t \in 1..MaxTasks :
        \/ initialize_embedding_raises(t)
        \/ initialize(t)
        \/ create_collection(t)
        \/ \E cause \in {"origin", "processor"} : process_raises(t, cause)
        \/ \E out \in ProcessorOutputs : save_snippets(t, out)
        \/ complete_library(t)
        \/ complete_get_commit(t)
        \/ complete_set_payload(t)
        \/ cleanup_delete_collection(t)
        \/ cleanup_set_failed(t)
        \/ rebuild_set_processing(t)
        \/ remove_tag(t)
        \/ get_by_id(t)
        \/ rebuild_set_failed(t)
        \/ add_tag_to_index(t)
        \/ add_tag_set_tags(t)

Next ==
    \/ Requests
    \/ TaskSteps
    \/ \E c \in Commits : origin_moves(c)

Spec == Init /\ [][Next]_vars

\* ------------------------------------------------------------------ claims
CreateKinds == {"create", "create_from_git"}

\* Task t ends in this step.
Ends(t) == tasks[t].kind \notin {"idle", "done"} /\ tasks'[t].kind = "done"

\* A task is accepted in this step.
Started(kinds) ==
    \E t \in 1..MaxTasks : tasks[t].kind = "idle" /\ tasks'[t].kind \in kinds

\* C1: when a create whose Content Processor call failed returns, the
\* library has no partition, its header exists with state failed and a
\* non-empty error detail, and the exception has left the task.
C1_FailedCreateCleanedUp ==
    [][\A t \in 1..MaxTasks :
          (tasks[t].kind \in CreateKinds /\ tasks[t].cause = "processor" /\ Ends(t))
          => /\ ~partition'.exists
             /\ header'.exists
             /\ header'.state = FAILED
             /\ header'.error_message # ""
             /\ tasks'[t] = RaisedTask]_vars

\* C2: when a create (from content or from a repository) returns without an
\* error and no other task was in flight while it ran, the header is
\* finalized and its total_tokens is the sum of the stored snippets' tokens.
C2_CreateFinalizesWithTotal ==
    [][\A t \in 1..MaxTasks :
          (tasks[t].kind \in CreateKinds /\ tasks[t].alone /\ Ends(t)
              /\ tasks'[t] = DoneTask)
          => /\ header'.exists
             /\ header'.state = FINALIZED
             /\ header'.total_tokens = SumTokens(partition'.points)]_vars

\* A create that ran alone has returned and stored snippets.
C2_Witness ==
    /\ resp.op \in {"create", "create_from_git"} /\ resp.result = "accepted"
    /\ tasks[1] = DoneTask
    /\ \A t \in 2..MaxTasks : tasks[t] = IdleTask
    /\ Len(partition.points) = 2
    /\ partition.points[1].tokens # partition.points[2].tokens
    /\ header.state = FINALIZED
    /\ header.total_tokens = SumTokens(partition.points)

\* The longest prefix of s whose tokens sum to at most limit.
LongestPrefix(s, limit) ==
    LET fits == {n \in 0..Len(s) : SumTokens(SubSeq(s, 1, n)) <= limit}
    IN SubSeq(s, 1, CHOOSE n \in fits : \A m \in fits : m <= n)

\* C3: the documents a query returns are exactly the longest prefix of the
\* ranked list whose cumulative tokens stay within the budget.
C3_LongestPrefix ==
    (resp.op = "query" /\ resp.result = "ok")
    => resp.docs = LongestPrefix(resp.results, resp.tokens)

\* A query stopped at a candidate that did not fit although a lower-ranked
\* one would have fitted in what was left of the budget.
C3_Witness ==
    /\ resp.op = "query" /\ resp.result = "ok"
    /\ Len(resp.results) = 3 /\ Len(resp.docs) = 1
    /\ SumTokens(resp.docs) + resp.results[2].tokens > resp.tokens
    /\ SumTokens(resp.docs) + resp.results[3].tokens <= resp.tokens

\* C4: the tokens of the documents a query returns never sum to more than
\* the budget.
C4_WithinBudget ==
    (resp.op = "query" /\ resp.result = "ok") => SumTokens(resp.docs) <= resp.tokens

\* A query returned some documents and cut the ranked list.
C4_Witness ==
    /\ resp.op = "query" /\ resp.result = "ok"
    /\ resp.docs # <<>>
    /\ Len(resp.docs) < Len(resp.results)
    /\ SumTokens(resp.docs) = resp.tokens

\* C5: a query whose tag is not the default and is not in the library's tag
\* list ends in a validation error that names the tag, with no embedding and
\* no search call; the validation never fails for the default tag or a tag
\* in the list.
C5_TagValidation ==
    [][resp'.op = "query"
       => /\ (resp'.tag # DEFAULT_LIBRARY_TAG /\ header.exists
                 /\ resp'.tag \notin Range(header.tags))
             => (resp'.result = "validation" /\ resp'.detail = resp'.tag
                    /\ resp'.calls = {} /\ resp'.docs = <<>>)
          /\ (resp'.tag = DEFAULT_LIBRARY_TAG
                 \/ (header.exists /\ resp'.tag \in Range(header.tags)))
             => resp'.result = "ok"]_vars

\* A query for a tag the library lacks was refused.
C5_Witness ==
    /\ resp.op = "query" /\ resp.result = "validation"
    /\ header.tags = <<Tag10>> /\ resp.tag = Tag20 /\ resp.detail = Tag20
    /\ resp.calls = {}

\* C6: a rebuild requested while the origin's commit id equals the stored
\* last_commit_id ends in a validation error, schedules no task and changes
\* neither the header nor the partition.
C6_RebuildNeedsChange ==
    [][(header.exists /\ header.repo_url /\ origin = header.last_commit_id
           /\ \E access \in BOOLEAN : api_rebuild(access))
       => /\ resp'.op = "rebuild" /\ resp'.result = "validation"
          /\ tasks' = tasks
          /\ header' = header
          /\ partition' = partition]_vars

\* A rebuild of a finalized repository library whose origin has not moved
\* was refused.
C6_Witness ==
    /\ resp.op = "rebuild" /\ resp.result = "validation"
    /\ header.exists /\ header.repo_url /\ header.state = FINALIZED
    /\ origin = header.last_commit_id /\ origin # NoCommit
    /\ InFlight = {}

\* C7: at most one mutation is in flight for the library at any time.
C7_AtMostOneInFlight == Cardinality(InFlight) <= 1

\* C8: the header's state only moves absent -> processing, processing ->
\* finalized, processing -> failed, and finalized -> processing in a step of
\* an add_tag or rebuild task.
C8_StateTransitions ==
    [][(header'.exists # header.exists \/ header'.state # header.state)
       => \/ ~header.exists /\ header'.exists /\ header'.state = PROCESSING
          \/ /\ header.exists /\ header'.exists
             /\ \/ header.state = PROCESSING /\ header'.state \in {FINALIZED, FAILED}
                \/ /\ header.state = FINALIZED /\ header'.state = PROCESSING
                   /\ \E t \in 1..MaxTasks :
                         tasks[t].kind \in {"add_tag", "rebuild"} /\ tasks'[t] # tasks[t]]_vars

\* C9: no task is accepted in a step taken while the header's state is
\* processing.
C9_ProcessingRejects ==
    [][is_processing => ~Started(CreateKinds \cup {"add_tag", "rebuild"})]_vars

\* C10: a create task is accepted only when no header exists for the id.
C10_CreateNeedsNoHeader == [][Started(CreateKinds) => ~header.exists]_vars


\* Label a comes before label b in lexicographic order of code points.
LexLess(a, b) ==
    \E i \in 1..Len(b) :
        /\ \A j \in 1..(i - 1) : j <= Len(a) /\ a[j] = b[j]
        /\ (i > Len(a) \/ (i <= Len(a) /\ a[i] < b[i]))

\* C11: the tag list is always in descending lexicographic order of its
\* labels; holding "1.0", "2.0" and "1.5" it reads ["2.0", "1.5", "1.0"],
\* and "10.0" comes after "2.0" although it is the larger version.
C11_TagsSortedDescending ==
    /\ \A i \in 1..(Len(header.tags) - 1) : ~LexLess(header.tags[i], header.tags[i + 1])
    /\ Range(header.tags) = {Tag10, Tag15, Tag20} => header.tags = <<Tag20, Tag15, Tag10>>
    /\ Range(header.tags) = {Tag20, Tag100} => header.tags = <<Tag20, Tag100>>

\* "1.0", "2.0" and "1.5" were appended one after the other.
C11_Witness ==
    /\ header.tags = <<Tag20, Tag15, Tag10>>
    /\ InFlight = {}

\* C12: the tag list never holds a label twice.
C12_NoDuplicateTags == Cardinality(Range(header.tags)) = Len(header.tags)

\* Two add_tag tasks for one tag: the first has written the tag, the second
\* read the list before that and is about to write it too.
C12_Witness ==
    /\ tasks[1].kind = "done"
    /\ tasks[2].kind = "add_tag" /\ tasks[2].pc = "set_tags"
    /\ tasks[2].tag \in Range(header.tags)
    /\ tasks[2].tags = <<tasks[2].tag>>

\* C13: after every create, add_tag and rebuild that returns without an
\* error, having run with no other task in flight, a finalized header's
\* total_tokens is the sum of the tokens of all points in the partition.
C13_FinalizedTotalIsSum ==
    [][\A t \in 1..MaxTasks :
          (tasks[t].kind \in CreateKinds \cup {"add_tag", "rebuild"}
              /\ tasks[t].alone /\ Ends(t) /\ tasks'[t] = DoneTask
              /\ header'.exists /\ header'.state = FINALIZED)
          => header'.total_tokens = SumTokens(partition'.points)]_vars

\* C14: the library id depends on org and project alone: two derivations
\* for the same org and project, by the dependency or by the adapter, in
\* any order, give the same id.
C14_IdIsPure ==
    [][(resp.op \in {"get_library_id", "GitLabAdapter.id"}
           /\ resp'.op \in {"get_library_id", "GitLabAdapter.id"}
           /\ resp'.org = resp.org /\ resp'.project = resp.project)
       => resp'.library_id = resp.library_id]_vars

\* The adapter derived the id the dependency derives for the same names.
C14_Witness ==
    /\ resp.op = "GitLabAdapter.id"
    /\ resp.org # resp.project
    /\ resp.library_id = get_library_id(resp.org, resp.project)

\* C15: a search with a non-empty query text ignores offset: over the same
\* catalog, for the same query, limit, ranking and call outcomes, every
\* offset gives the results the request got.
C15_VectorSearchIgnoresOffset ==
    (resp.op = "search" /\ truthy(resp.query))
    => \A offset \in 0..MaxOffset :
          LibraryService_search(resp.query, resp.limit, offset, resp.embedding_ok,
                                resp.index_ok, resp.rank) = resp.results

\* A vector search with a positive offset answered the top matches.
C15_Witness ==
    /\ resp.op = "search" /\ truthy(resp.query)
    /\ resp.offset = 1 /\ resp.limit = 2
    /\ Len(resp.results) = 2
    /\ resp.results[1] = resp.rank[1]
    /\ resp.results[1] # Uuid(library_id)

\* C16: a search without query text is paginated: over the same catalog two
\* pages whose offsets differ by at least limit have no library in common.
C16_ListingPagesDisjoint ==
    (resp.op = "search" /\ ~truthy(resp.query) /\ resp.index_ok)
    => \A offset \in 0..MaxOffset :
          (offset >= resp.offset + resp.limit \/ resp.offset >= offset + resp.limit)
          => Range(resp.results)
                \cap Range(LibraryService_search(resp.query, resp.limit, offset,
                                                 resp.embedding_ok, resp.index_ok,
                                                 resp.rank)) = {}

\* C17: an add_tag request for a library that does not exist ends in
\* not-found; one whose tag is already in the library's tags, whose library
\* is processing, whose origin is not reachable or whose tag is not in the
\* origin's listing ends in a validation error. In each case no task is
\* scheduled and neither the header nor the partition changes: a step is
\* such a refusal, or it is not an add_tag request made in one of the cases.
C17_AddTagRejections ==
    [][\/ /\ resp'.op = "add_tag"
          /\ resp'.result = IF header.exists THEN "validation" ELSE "not_found"
          /\ tasks' = tasks
          /\ header' = header
          /\ partition' = partition
       \/ resp'.op # "add_tag"
       \/ ~\E tag \in RepoTags, access \in BOOLEAN, available_tags \in SUBSET RepoTags :
             /\ \/ ~header.exists
                \/ tag \in Range(header.tags)
                \/ is_processing
                \/ ~access
                \/ tag \notin available_tags
             /\ api_add_tag(tag, access, available_tags)]_vars

\* An add_tag request was refused while a task held the library processing.
C17_Witness ==
    /\ resp.op = "add_tag" /\ resp.result = "validation"
    /\ is_processing /\ header.repo_url
    /\ InFlight # {} /\ IdleSlots # {}

\* C18: a rebuild request for a library created from submitted content (its
\* header has no repository URL) ends in a validation error, schedules no
\* task and changes neither the header nor the partition.
C18_RebuildNeedsRepository ==
    [][(header.exists /\ ~header.repo_url /\ \E access \in BOOLEAN : api_rebuild(access))
       => /\ resp'.op = "rebuild" /\ resp'.result = "validation"
          /\ tasks' = tasks
          /\ header' = header
          /\ partition' = partition]_vars

\* The only task accepted was a content create, it has finalized the library,
\* and a rebuild was then refused although the origin's head differs from
\* the stored commit id.
C18_Witness ==
    /\ resp.op = "rebuild" /\ resp.result = "validation"
    /\ header.exists /\ ~header.repo_url /\ header.state = FINALIZED
    /\ origin # header.last_commit_id
    /\ tasks[1].kind = "done" /\ \A t \in 2..MaxTasks : tasks[t].kind = "idle"

\* C19: query, search, get and get_tags never change state: in every step
\* one of them takes, whether it answers or fails, the header, the partition
\* and the other libraries' catalog rows are left as they were.
C19_ReadsChangeNothing ==
    [][header' = header /\ partition' = partition /\ catalog' = catalog]_vars

\* A get_tags listed the origin's tags, which differ from the stored tag
\* list, and the stored list is as it was.
C19_Witness ==
    /\ resp.op = "get_tags" /\ resp.result = "ok"
    /\ resp.tags = <<Tag20, Tag10>>
    /\ header.exists /\ header.tags = <<Tag10>>
    /\ catalog # {}

\* C20: the step in which a create, add_tag or rebuild request is accepted
\* answers "accepted" and writes neither the header nor the partition; the
\* task it schedules has not taken a step.
C20_AcceptedBeforeAnyWrite ==
    [][Started(CreateKinds \cup {"add_tag", "rebuild"})
       => /\ resp'.result = "accepted"
          /\ header' = header
          /\ partition' = partition
          /\ catalog' = catalog
          /\ \A t \in 1..MaxTasks :
                (tasks[t].kind = "idle" /\ tasks'[t].kind # "idle")
                => /\ tasks'[t].kind = resp'.op
                   /\ tasks'[t].pc \in {"initialize", "set_processing", "get_by_id"}
                   /\ tasks'[t].pc = "initialize" <=> tasks'[t].kind \in CreateKinds
                   /\ tasks'[t].pc = "set_processing" <=> tasks'[t].kind = "rebuild"]_vars

\* A rebuild has been accepted and its task has not started: the header is
\* still finalized with the commit id the origin has left behind.
C20_Witness ==
    /\ resp.op = "rebuild" /\ resp.result = "accepted"
    /\ \E t \in 1..MaxTasks : tasks[t].kind = "rebuild" /\ tasks[t].pc = "set_processing"
    /\ Cardinality(InFlight) = 1
    /\ header.exists /\ header.state = FINALIZED
    /\ origin # header.last_commit_id

\* C21: a partition exists only if a header exists; no step deletes a
\* header; the step of a create task that writes the header writes
\* state=processing and an empty tag list and leaves the partition alone,
\* and the partition is created only by a later step, with the header there.
C21_HeaderBeforePartition ==
    /\ [](partition.exists => header.exists)
    /\ [][/\ header.exists => header'.exists
          /\ (\E t \in 1..MaxTasks :
                 tasks[t].pc = "initialize" /\ tasks'[t].pc = "create_collection")
             => /\ header'.exists /\ header'.state = PROCESSING /\ header'.tags = <<>>
                /\ partition' = partition
          /\ (~partition.exists /\ partition'.exists)
             => /\ header.exists
                /\ \E t \in 1..MaxTasks :
                      tasks[t].pc = "create_collection" /\ tasks'[t].pc = "process"]_vars

\* A create task has just created the partition under the header it wrote.
C21_Witness ==
    /\ partition.exists /\ partition.points = <<>>
    /\ header.exists /\ header.state = PROCESSING /\ header.tags = <<>>
    /\ \E t \in 1..MaxTasks : tasks[t].kind \in CreateKinds /\ tasks[t].pc = "process"

\* The positions of a rebuild task's body after its first write.
RebuildRunning ==
    {"remove_tag", "get_by_id", "process", "complete", "complete_set_payload"}

C23_AddTagHoldsProcessing ==
    [][\A t \in 1..MaxTasks :
          (tasks[t].kind = "add_tag" /\ tasks[t].alone
              /\ tasks[t].pc \in {"get_by_id", "process"})
          => /\ tasks[t].pc = "process" => header.state = PROCESSING
             /\ ~Started({"rebuild", "add_tag"})]_vars

\* The snippets stored under a tag other than the default one, in order.
TaggedPoints(points) == SelectSeq(points, LAMBDA p : p.tag # DEFAULT_LIBRARY_TAG)

\* C24: no step of a rebuild task, whether it goes on or raises, changes a
\* snippet stored under a tag other than the default one, or the tag list;
\* so both are after the rebuild what they were before it.
C24_RebuildKeepsOtherTags ==
    [][\A t \in 1..MaxTasks :
          (tasks[t].kind = "rebuild" /\ tasks'[t].pc # tasks[t].pc)
          => /\ TaggedPoints(partition'.points) = TaggedPoints(partition.points)
             /\ header'.tags = header.tags]_vars

\* A rebuild has returned: the default tag's snippet was replaced, the
\* snippet of 1.0 and the tag list are as they were.
C24_Witness ==
    /\ resp.op = "rebuild" /\ resp.result = "accepted"
    /\ tasks[1] = DoneTask /\ \A t \in 2..MaxTasks : tasks[t] = IdleTask
    /\ header.state = FINALIZED /\ header.tags = <<Tag10>>
    /\ partition.points = <<[tag |-> Tag10, tokens |-> 2],
                            [tag |-> DEFAULT_LIBRARY_TAG, tokens |-> 1]>>

\* C25: add_tag is additive: a step of an add_tag task keeps every stored
\* snippet as it is, the snippets it adds carry the task's tag, and when the
\* task returns without an error its tag is in the header's tag list.
C25_AddTagIsAdditive ==
    [][\A t \in 1..MaxTasks :
          (tasks[t].kind = "add_tag" /\ tasks'[t].pc # tasks[t].pc)
          => /\ Len(partition'.points) >= Len(partition.points)
             /\ SubSeq(partition'.points, 1, Len(partition.points)) = partition.points
             /\ \A i \in (Len(partition.points) + 1)..Len(partition'.points) :
                   partition'.points[i].tag = tasks[t].tag
             /\ tasks'[t] = DoneTask => tasks[t].tag \in Range(header'.tags)]_vars

\* add_tag 2.0 has returned: its snippet follows the two stored before, and
\* 2.0 is listed.
C25_Witness ==
    /\ resp.op = "add_tag" /\ resp.result = "accepted"
    /\ tasks[1] = DoneTask /\ \A t \in 2..MaxTasks : tasks[t] = IdleTask
    /\ header.tags = <<Tag20, Tag10>>
    /\ partition.points = <<[tag |-> DEFAULT_LIBRARY_TAG, tokens |-> 1],
                            [tag |-> Tag10, tokens |-> 2],
                            [tag |-> Tag20, tokens |-> 1]>>

\* C26: when a rebuild task that ran with no other task in flight ends
\* after a failure in its body, the header's state is failed, its error
\* message is not empty, and the exception has left the task.
C26_FailedRebuildMarked ==
    [][\A t \in 1..MaxTasks :
          (tasks[t].kind = "rebuild" /\ tasks[t].alone /\ tasks[t].pc = "set_failed"
              /\ Ends(t))
          => /\ tasks'[t] = RaisedTask
             /\ header'.state = FAILED
             /\ header'.error_message # ""]_vars

\* C27: when an add_tag task ends while reading the library, fetching or
\* processing the tag's content or storing its snippets, the step leaves the
\* header (state and tag list) and every stored snippet as they were, and
\* the exception has left the task.
C27_FailedAddTagChangesNothing ==
    [][\A t \in 1..MaxTasks :
          (tasks[t].kind = "add_tag" /\ tasks[t].pc \in {"get_by_id", "process"}
              /\ Ends(t))
          => /\ tasks'[t] = RaisedTask
             /\ header' = header
             /\ partition' = partition]_vars

\* An add_tag task has ended with an exception: the library is finalized
\* with the tag and the two snippets it had.
C27_Witness ==
    /\ resp.op = "add_tag" /\ resp.result = "accepted"
    /\ tasks[1] = RaisedTask /\ \A t \in 2..MaxTasks : tasks[t] = IdleTask
    /\ header.state = FINALIZED /\ header.tags = <<Tag10>>
    /\ partition.points = <<[tag |-> DEFAULT_LIBRARY_TAG, tokens |-> 1],
                            [tag |-> Tag10, tokens |-> 2]>>

\* C28: when an add_tag task that ran with no other task in flight ends
\* with an exception in the header update that appends its tag, reading the
\* tag list or writing it, the header's state is failed.
C28_FailedTagAppendMarked ==
    [][\A t \in 1..MaxTasks :
          (tasks[t].kind = "add_tag" /\ tasks[t].alone
              /\ tasks[t].pc \in {"add_tag_to_index", "set_tags"}
              /\ Ends(t) /\ tasks'[t] = RaisedTask)
          => header'.state = FAILED]_vars

\* Task u has stored snippets and has not yet finalized or listed them.
StoredNotFinalized(u) ==
    /\ tasks[u].pc \in {"complete_library", "complete", "complete_set_payload",
                        "add_tag_to_index", "set_tags"}
    /\ tasks[u].total_tokens > 0

\* C29: no task's delete takes effect between another task's storing of
\* snippets and that task's finalize: neither a delete of the partition, nor
\* a delete of the default tag's snippets when the other task stored under
\* the default tag.
C29_DeleteBeforeRepopulate ==
    [][\A t, u \in 1..MaxTasks :
          (t # u /\ StoredNotFinalized(u) /\ tasks'[t].pc # tasks[t].pc
              /\ partition' # partition)
          => /\ tasks[t].pc # "cleanup_delete"
             /\ tasks[t].pc = "remove_tag" => tasks[u].tag # DEFAULT_LIBRARY_TAG]_vars

\* C30: a header whose state is processing or finalized carries no error
\* message.
C30_ErrorOnlyWhenFailed ==
    (header.exists /\ header.state \in {PROCESSING, FINALIZED})
    => header.error_message = ""

\* C31: read paths degrade instead of propagating. A query whose tag
\* validation passed and whose embedding or vector search call fails, and a
\* search whose embedding or index call fails, answer an empty result list
\* and no error.
C31_ReadsDegrade ==
    [][/\ \/ resp'.op # "query"
          \/ \A embedding_ok \in BOOLEAN, index_ok \in BOOLEAN :
                 \A rank \in Ranks(resp'.tag) :
                     (/\ validate_tag(resp'.tag) = ""
                      /\ (~embedding_ok \/ ~index_ok \/ ~partition.exists)
                      /\ api_query(resp'.tag, resp'.tokens, embedding_ok,
                                   index_ok, rank))
                     => (resp'.result = "ok" /\ resp'.docs = <<>>)
       /\ (/\ resp'.op = "search"
           /\ \/ truthy(resp'.query) /\ ~resp'.embedding_ok
              \/ ~resp'.index_ok)
          => (resp'.result = "ok" /\ resp'.results = <<>>)]_vars

\* A query for a listed tag with stored snippets answered nothing because
\* the embedding call failed.
C31_Witness ==
    /\ resp.op = "query" /\ resp.result = "ok"
    /\ resp.tag = Tag10 /\ Tag10 \in Range(header.tags)
    /\ \E i \in 1..Len(partition.points) : partition.points[i].tag = Tag10
    /\ resp.calls = {"embedding"}
    /\ resp.docs = <<>>

\* C32: a rebuild that completes successfully leaves the header finalized
\* with last_commit_id equal to the commit id the origin answered in
\* Storage.complete, so that a rebuild request made while the origin stays
\* there is rejected.
C32_RebuildStoresCurrentCommit ==
    [][\A t \in 1..MaxTasks :
          (/\ tasks[t].kind = "rebuild"
           /\ tasks[t].pc = "complete_set_payload"
           /\ tasks'[t] = DoneTask)
          => /\ header'.state = FINALIZED
             /\ header'.last_commit_id = tasks[t].commit_id]_vars

\* C33: no run leaves a library in processing with no mutation task running
\* for it: while the header says processing, some accepted task has not
\* ended yet.
C33_ProcessingHasTask ==
    (header.exists /\ header.state = PROCESSING) => InFlight # {}

\* C34: whenever the header says finalized the library's partition exists,
\* under every interleaving of create tasks for the library_id.
C34_FinalizedHasPartition ==
    (header.exists /\ header.state = FINALIZED) => partition.exists

\* C35: when a rebuild finalizes, the last_commit_id it stores is the commit
\* its default-tag content was collected at, even if the origin advanced
\* between collect_files and Storage.complete (both lookups answered).
C35_MarkerIsContentCommit ==
    [][\A t \in 1..MaxTasks :
          (/\ tasks[t].kind = "rebuild"
           /\ tasks[t].pc = "complete_set_payload"
           /\ tasks[t].fetched # NoCommit /\ tasks[t].commit_id # NoCommit
           /\ tasks'[t] = DoneTask)
          => header'.last_commit_id = tasks[t].fetched]_vars

\* C36: no tag is lost by the read-modify-write of the tag list: when an
\* add_tag task returns from writing the list, every tag that was listed
\* is still listed, so two add_tag tasks that both return leave both tags.
C36_NoTagLost ==
    [][\A t \in 1..MaxTasks :
          (/\ tasks[t].kind = "add_tag"
           /\ tasks[t].pc = "set_tags"
           /\ tasks'[t] = DoneTask)
          => Range(header.tags) \subseteq Range(header'.tags)]_vars

\* The tokens of the stored snippets that carry tag g.
StoredTokens(g) == SumTokens(SelectSeq(partition.points, LAMBDA p : p.tag = g))

C38_FailedRebuildKeepsPartition ==
    [][\A t \in 1..MaxTasks :
          (/\ tasks[t].kind = "rebuild"
           /\ tasks'[t] # tasks[t]
           /\ tasks'[t].pc = "set_failed" \/ tasks'[t] = RaisedTask)
          => /\ partition'.exists = partition.exists
             /\ TaggedPoints(partition'.points) = TaggedPoints(partition.points)
             /\ (tasks'[t] = RaisedTask /\ header'.state = FAILED)
                => partition'.exists]_vars

\* A rebuild failed after it had cleared the default-tag snippets: the
\* header is failed, the partition exists and still holds the snippet of
\* tag 1.0.
C38_Witness ==
    /\ resp.op = "rebuild" /\ resp.result = "accepted"
    /\ tasks[1] = RaisedTask /\ \A t \in 2..MaxTasks : tasks[t] = IdleTask
    /\ header.state = FAILED /\ header.error_message # ""
    /\ partition.exists
    /\ partition.points = <<[tag |-> Tag10, tokens |-> 2]>>

\* Some completion or embedding call made for the files fails.
HasFailingCall(files) ==
    \E i \in 1..Len(files) :
        /\ files[i].content = "text"
        /\ \/ files[i].completion = "raises"
           \/ /\ files[i].completion = "parsed"
              /\ \E j \in 1..Len(files[i].snippets) : ~files[i].snippets[j].embedding_ok

\* Every file has text and a completion response that cannot be parsed.
AllUnparseable(files) ==
    /\ files # <<>>
    /\ \A i \in 1..Len(files) :
          files[i].content = "text" /\ files[i].completion = "unparseable"

\* The tokens of the snippets parsed from the files.
RECURSIVE ParsedTokens(_)
ParsedTokens(files) ==
    IF files = <<>> THEN 0
    ELSE (IF Head(files).completion = "parsed"
          THEN SumTokens(Head(files).snippets) ELSE 0) + ParsedTokens(Tail(files))

=============================================================================
